---- MODULE Spec2Model ----
(***************************************************************************)
(* Model of the argument layer of the `az sql` command module:             *)
(*   _validators.py  create_args_for_complex_type and the post-parse step  *)
(*                   _expansion_validator_impl it registers,               *)
(*                   validate_subnet,                                      *)
(*                   validate_managed_instance_storage_size;               *)
(*   _params.py      SizeWithUnitConverter, the registrations made by      *)
(*                   load_arguments and _configure_db_create_params.       *)
(*                                                                         *)
(* Spec: one behaviour is one invocation of one command.  The              *)
(* registrations of the command are made (CreateArgs), the parser converts *)
(* the command line and hands over a namespace (Parse), the post-parse     *)
(* hooks run (RunAggregator, RunValidateSubnet, RunValidateStorage) and    *)
(* the command executes (Execute).  The source does not fix the order in   *)
(* which the hooks of one command run; it is the order of the command's    *)
(* argument table, built outside these two files.  The model therefore     *)
(* lets the hooks run in every order.                                      *)
(*                                                                         *)
(* ConverterSpec: one call of a size converter on one string.              *)
(* RegistrationSpec: the registrations of one command, for every shape of  *)
(* the validation metadata of the SDK's model types.                       *)
(* ConfigureSpec: _configure_db_create_params for every engine and create  *)
(* mode.                                                                   *)
(* ManagedInstanceSpec, DbCreateSpec: the invocations of Spec of the       *)
(* managed instance commands and of the database create commands.          *)
(***************************************************************************)
EXTENDS Integers, Sequences, FiniteSets, TLC

(***************************************************************************)
(* Python values.  A string is kept as the list of its '/'-separated       *)
(* parts ("" is <<"">>, "/a/b" is <<"", "a", "b">>), which is what the     *)
(* resource-identifier helpers need.                                       *)
(***************************************************************************)
VNone == [t |-> "None"]

VBool(b) == [t |-> "bool", b |-> b]

VInt(n) == [t |-> "int", n |-> n]

VStr(parts) == [t |-> "str", parts |-> parts]

VDict(items) == [t |-> "dict", items |-> items]

VObj(cls, kw) == [t |-> "obj", cls |-> cls, kw |-> kw]

\* bool(v): None, False, 0, '' and an empty collection are falsy; an SDK
\* model object defines neither __bool__ nor __len__ and is truthy.
Truthy(v) ==
    CASE v.t = "None" -> FALSE
      [] v.t = "bool" -> v.b
      [] v.t = "int"  -> v.n # 0
      [] v.t = "str"  -> v.parts # <<"">>
      [] v.t = "dict" -> v.items # {}
      [] OTHER        -> TRUE

\* any(d.values())
AnyTruthy(d) == \E p \in DOMAIN d : Truthy(d[p])

EmptyNs == [k \in {} |-> VNone]

\* setattr(namespace, k, v)
SetAttr(nsp, k, v) == [f \in DOMAIN nsp \cup {k} |-> IF f = k THEN v ELSE nsp[f]]

\* delattr(namespace, k) for every k of ks
DelAttrs(nsp, ks) == [f \in DOMAIN nsp \ ks |-> nsp[f]]

Range(s) == {s[i] : i \in DOMAIN s}

\* a command-line string kept character by character, as the size converter
\* reads it
VText(chars) == [t |-> "text", chars |-> chars]

(***************************************************************************)
(* Bounds.                                                                 *)
(***************************************************************************)
\* the largest number of optional flags given on one command line
MaxSupplied == 2

\* the longest string, in characters, the converter is called with (besides
\* the sample strings)
MaxLen == 3

\* the largest number of properties with an entry in the validation metadata
\* of a command's model types
MaxValidated == 1

(***************************************************************************)
(* SizeWithUnitConverter.  A Python int is kept as its base-1024 digits,   *)
(* least significant first, without leading zeros (0 is <<>>): sizes such  *)
(* as 2 * 1024^3 do not fit a machine word.  A multiplier of a unit map,   *)
(* always a power of 1024, is kept as its exponent: 1024 * 1024 is 2 and   *)
(* 1.0 / 1024 is -1.  `/` is Python 3's true division, so uvals is a float *)
(* (a power of two, exact) and the product uvals * int(numeric_part) is a  *)
(* float product: the int is first rounded to the nearest double, which    *)
(* changes it from 2^53 on, and the scaling by a power of two is exact.    *)
(***************************************************************************)
RECURSIVE PyInt(_)
PyInt(n) == IF n = 0 THEN <<>> ELSE <<n % 1024>> \o PyInt(n \div 1024)

\* int(x * 1024^e) for an int x >= 0: the cast drops the fraction
TimesPow1024(x, e) ==
    IF x = <<>> THEN <<>>
    ELSE IF e >= 0 THEN [i \in 1..e |-> 0] \o x
    ELSE SubSeq(x, 1 - e, Len(x))

\* the value of a Python int below 1024^3 as a number
RECURSIVE Small(_)
Small(x) == IF x = <<>> THEN 0 ELSE Head(x) + 1024 * Small(Tail(x))

Digits == <<"0", "1", "2", "3", "4", "5", "6", "7", "8", "9">>

\* str.isdigit on one character
IsDigit(c) == c \in Range(Digits)

\* x * m + c for a Python int x and small numbers m, c
RECURSIVE TimesPlus(_, _, _)
TimesPlus(x, m, c) ==
    IF x = <<>> THEN PyInt(c)
    ELSE LET t == Head(x) * m + c
         IN  <<t % 1024>> \o TimesPlus(Tail(x), m, t \div 1024)

\* int(numeric_part) for a non-empty run of digits
RECURSIVE IntOfDigits(_)
IntOfDigits(ds) ==
    IF ds = <<>> THEN <<>>
    ELSE TimesPlus(IntOfDigits(SubSeq(ds, 1, Len(ds) - 1)), 10,
                   (CHOOSE i \in DOMAIN Digits : Digits[i] = ds[Len(ds)]) - 1)

\* the binary digits of a Python int, least significant first
RECURSIVE ToBits(_)
ToBits(x) ==
    IF x = <<>> THEN <<>>
    ELSE [i \in 1..10 |-> (Head(x) \div 2^(i - 1)) % 2] \o ToBits(Tail(x))

\* int.bit_length()
BitLength(x) ==
    IF x = <<>> THEN 0
    ELSE 10 * (Len(x) - 1) + (CHOOSE b \in 1..10 : 2^(b - 1) <= x[Len(x)] /\ x[Len(x)] < 2^b)

\* the Python int of a sequence of binary digits whose last one is 1
FromBits(bits) ==
    [j \in 1..((Len(bits) + 9) \div 10) |->
        LET bit(i) == IF 10 * (j - 1) + i <= Len(bits) THEN bits[10 * (j - 1) + i] ELSE 0
        IN  bit(1) + 2 * bit(2) + 4 * bit(3) + 8 * bit(4) + 16 * bit(5) + 32 * bit(6)
            + 64 * bit(7) + 128 * bit(8) + 256 * bit(9) + 512 * bit(10)]

\* binary digits plus one
RECURSIVE Increment(_)
Increment(bits) ==
    IF bits = <<>> THEN <<1>>
    ELSE IF Head(bits) = 0 THEN <<1>> \o Tail(bits)
    ELSE <<0>> \o Increment(Tail(bits))

\* float(x) for a Python int x >= 0, as the integer the double holds: x
\* itself up to 53 binary digits, else x rounded to 53 significant binary
\* digits, a tie to the even neighbour
FloatOfInt(x) ==
    IF BitLength(x) <= 53 THEN x
    ELSE LET bits == ToBits(x)
             d    == BitLength(x) - 53
             up   == /\ bits[d] = 1
                     /\ \/ \E i \in 1..(d - 1) : bits[i] = 1
                        \/ bits[d + 1] = 1
             kept == SubSeq(bits, d + 1, BitLength(x))
         IN  FromBits([i \in 1..d |-> 0] \o (IF up THEN Increment(kept) ELSE kept))

\* the default unit_map of __init__:
\* dict(B=1, kB=1024, MB=1024 * 1024, GB=1024 * 1024 * 1024, TB=1024^4)
DefaultUnitMap ==
    (<<"B">> :> 0) @@ (<<"k", "B">> :> 1) @@ (<<"M", "B">> :> 2)
    @@ (<<"G", "B">> :> 3) @@ (<<"T", "B">> :> 4)

\* the unit_map of storage_param_type:
\* dict(B=1.0 / 1024^3, kB=1.0 / 1024^2, MB=1.0 / 1024, GB=1, TB=1024)
StorageUnitMap ==
    (<<"B">> :> 0 - 3) @@ (<<"k", "B">> :> 0 - 2) @@ (<<"M", "B">> :> 0 - 1)
    @@ (<<"G", "B">> :> 0) @@ (<<"T", "B">> :> 1)

NoUnitMap == <<>>

\* __init__(self, unit='kB', result_type=int, unit_map=None)
SizeWithUnitConverter(unit, unit_map) ==
    [unit |-> unit,
     unit_map |-> IF unit_map # NoUnitMap THEN unit_map ELSE DefaultUnitMap]

\* max_size_bytes_param_type: SizeWithUnitConverter('B', result_type=int)
MaxSizeBytesType == SizeWithUnitConverter(<<"B">>, NoUnitMap)

\* storage_param_type: SizeWithUnitConverter('GB', result_type=int, unit_map=...)
StorageType == SizeWithUnitConverter(<<"G", "B">>, StorageUnitMap)

\* SizeWithUnitConverter(): the defaults of __init__
DefaultSizeType == SizeWithUnitConverter(<<"k", "B">>, NoUnitMap)

\* numeric_part = ''.join(itertools.takewhile(str.isdigit, value))
RECURSIVE NumericPart(_)
NumericPart(value) ==
    IF value = <<>> \/ ~IsDigit(Head(value)) THEN <<>>
    ELSE <<Head(value)>> \o NumericPart(Tail(value))

\* unit_part = value[len(numeric_part):]
UnitPart(value) == SubSeq(value, Len(NumericPart(value)) + 1, Len(value))

Returned(x) == [raised |-> "none", value |-> x]

Raised(e) == [raised |-> e]

\* uvals = (unit_map[unit_part] if unit_part else 1) /
\*         (unit_map[self.unit] if self.unit else 1), as an exponent of 1024
Uvals(self, unit_part) ==
    (IF unit_part # <<>> THEN self.unit_map[unit_part] ELSE 0)
    - (IF self.unit # <<>> THEN self.unit_map[self.unit] ELSE 0)

\* fault variant: an unknown unit is read as no unit
SizeWithUnitConverterCallLenient(self, value) ==
    LET numeric_part == NumericPart(value)
        unit_part == IF UnitPart(value) \in DOMAIN self.unit_map
                        THEN UnitPart(value) ELSE <<>>
    IN  IF numeric_part = <<>> THEN Raised("ValueError")
        ELSE Returned(TimesPow1024(FloatOfInt(IntOfDigits(numeric_part)),
                                   Uvals(self, unit_part)))

\* fault variant: the product is rounded up to the next integer
SizeWithUnitConverterCallCeiling(self, value) ==
    LET numeric_part == NumericPart(value)
        unit_part == UnitPart(value)
    IN  IF unit_part # <<>> /\ unit_part \notin DOMAIN self.unit_map
           THEN Raised("ValueError")
        ELSE IF numeric_part = <<>> THEN Raised("ValueError")
        ELSE LET n == FloatOfInt(IntOfDigits(numeric_part))
                 e == Uvals(self, unit_part)
                 down == TimesPow1024(n, e)
             IN  Returned(IF TimesPow1024(down, 0 - e) = n \/ e >= 0
                             THEN down
                             ELSE PyInt(Small(down) + 1))

\* fault variant: an empty numeric part is read as 0
SizeWithUnitConverterCallEmptyIsZero(self, value) ==
    LET numeric_part == NumericPart(value)
        unit_part == UnitPart(value)
    IN  IF unit_part # <<>> /\ unit_part \notin DOMAIN self.unit_map
           THEN Raised("ValueError")
        ELSE Returned(TimesPow1024(FloatOfInt(IntOfDigits(numeric_part)),
                                   Uvals(self, unit_part)))

\* __call__(self, value): a KeyError of either unit_map lookup is raised as
\* ValueError, and so is the ValueError of int('')
SizeWithUnitConverterCall(self, value) ==
    LET numeric_part == NumericPart(value)
        unit_part == UnitPart(value)
    IN  IF unit_part # <<>> /\ unit_part \notin DOMAIN self.unit_map
           THEN Raised("ValueError")
        ELSE IF self.unit # <<>> /\ self.unit \notin DOMAIN self.unit_map
           THEN Raised("ValueError")
        ELSE IF numeric_part = <<>> THEN Raised("ValueError")
        ELSE Returned(TimesPow1024(FloatOfInt(IntOfDigits(numeric_part)),
                                   Uvals(self, unit_part)))

(***************************************************************************)
(* The registrations of _params.py.  One entry of `arguments` is <<name>>  *)
(* for a plain string and <<property_name, property_key>> for a tuple.     *)
(***************************************************************************)
Registration(dest, model_type, arguments) ==
    [dest |-> dest, model_type |-> model_type, arguments |-> arguments]

\* _validators.py lines 70-73: the two names of one entry of `arguments`
PropertyName(arg) == arg[1]

PropertyKey(arg) == IF Len(arg) = 2 THEN arg[2] ELSE arg[1]

\* fault variant: the Sku call is given the Database argument list's 'sku' too
DbCreateRegistrationsCopyPaste ==
    << Registration("parameters", "Database",
          << <<"catalog_collation">>, <<"collation">>, <<"elastic_pool_id">>,
             <<"license_type">>, <<"max_size_bytes">>, <<"restore_point_in_time">>,
             <<"sample_name">>, <<"sku">>, <<"source_database_deletion_date">>,
             <<"tags">>, <<"zone_redundant">> >>),
       Registration("sku", "Sku",
          << <<"sku">>, <<"capacity">>, <<"family">>, <<"name">>, <<"tier">> >>) >>

\* _configure_db_create_params: the two create_args_for_complex_type calls
DbCreateRegistrations ==
    << Registration("parameters", "Database",
          << <<"catalog_collation">>, <<"collation">>, <<"elastic_pool_id">>,
             <<"license_type">>, <<"max_size_bytes">>, <<"restore_point_in_time">>,
             <<"sample_name">>, <<"sku">>, <<"source_database_deletion_date">>,
             <<"tags">>, <<"zone_redundant">> >>),
       Registration("sku", "Sku",
          << <<"capacity">>, <<"family">>, <<"name">>, <<"tier">> >>) >>

\* _configure_db_create_params: the flags it hides with arg_ctx.ignore
DbCreateIgnored(engine, create_mode) ==
    (IF create_mode # "Default" \/ engine # "db"
        THEN {"sample_name", "catalog_collation", "read_scale"} ELSE {})
    \cup (IF create_mode \notin {"Restore", "PointInTimeRestore"}
        THEN {"restore_point_in_time", "source_database_deletion_date"} ELSE {})
    \cup (IF create_mode \in {"Copy", "Secondary"}
        THEN {"collation", "tier", "max_size_bytes"} ELSE {})
    \cup (IF create_mode \in {"Restore", "PointInTimeRestore"}
        THEN {"collation", "max_size_bytes"} ELSE {})
    \cup (IF engine = "dw"
        THEN {"elastic_pool_id", "tier", "license_type", "family", "capacity"} ELSE {})

\* load_arguments: the commands that register a complex argument or a validator
Commands ==
    {"sql job create", "sql job step create", "sql db create", "sql db copy",
     "sql db restore", "sql db export", "sql db import", "sql db replica create",
     "sql dw create", "sql elastic-pool create", "sql server create",
     "sql server ad-admin create", "sql mi create", "sql mi update",
     "sql midb create", "sql midb restore"}

\* load_arguments: the (engine, create mode) of the commands configured by
\* _configure_db_create_params
DbCreateConfig(cmd) ==
    CASE cmd = "sql db create"         -> [engine |-> "db", create_mode |-> "Default"]
      [] cmd = "sql db copy"           -> [engine |-> "db", create_mode |-> "Copy"]
      [] cmd = "sql db restore"        -> [engine |-> "db", create_mode |-> "PointInTimeRestore"]
      [] cmd = "sql db replica create" -> [engine |-> "db", create_mode |-> "Secondary"]
      [] cmd = "sql dw create"         -> [engine |-> "dw", create_mode |-> "Default"]

IsDbCreateCommand(cmd) ==
    cmd \in {"sql db create", "sql db copy", "sql db restore",
             "sql db replica create", "sql dw create"}

ExportImportArguments ==
    << <<"administrator_login">>, <<"administrator_login_password">>,
       <<"authentication_type">>, <<"storage_key">>, <<"storage_key_type">>,
       <<"storage_uri">> >>

\* load_arguments: the create_args_for_complex_type calls of one command, in
\* the order they are made
Registrations(cmd) ==
    CASE IsDbCreateCommand(cmd) -> DbCreateRegistrations
      [] cmd = "sql job create" ->
            << Registration("schedule", "JobSchedule",
                  << <<"enabled">>, <<"start_time">>, <<"end_time">> >>) >>
      [] cmd = "sql job step create" ->
            << Registration("parameters", "JobStep",
                  << <<"action">>, <<"credential">>, <<"execution_options">>,
                     <<"step_id">>, <<"target_group">>, <<"output">> >>),
               Registration("action", "JobStepAction", << <<"value">> >>),
               Registration("output", "JobStepOutput",
                  << <<"server_name", "output_server_name">>, <<"database_name">>,
                     <<"schema_name">>, <<"table_name">>,
                     <<"credential", "output_credential">> >>),
               Registration("execution_options", "JobStepExecutionOptions",
                  << <<"timeout_seconds">>, <<"retry_attempts">>,
                     <<"initial_retry_interval_seconds">>,
                     <<"maximum_retry_interval_seconds">>,
                     <<"retry_interval_backoff_multiplier">> >>) >>
      [] cmd = "sql db export" ->
            << Registration("parameters", "ExportRequest", ExportImportArguments) >>
      [] cmd = "sql db import" ->
            << Registration("parameters", "ImportExtensionRequest", ExportImportArguments) >>
      [] cmd = "sql elastic-pool create" ->
            << Registration("parameters", "ElasticPool",
                  << <<"license_type">>, <<"max_size_bytes">>, <<"per_database_settings">>,
                     <<"tags">>, <<"zone_redundant">> >>),
               Registration("per_database_settings", "ElasticPoolPerDatabaseSettings",
                  << <<"max_capacity">>, <<"min_capacity">> >>),
               Registration("sku", "Sku",
                  << <<"capacity">>, <<"family">>, <<"name">>, <<"tier">> >>) >>
      [] cmd = "sql server create" ->
            << Registration("parameters", "Server",
                  << <<"administrator_login">>, <<"administrator_login_password">>,
                     <<"location">> >>) >>
      [] cmd = "sql server ad-admin create" ->
            << Registration("properties", "ServerAzureADAdministrator",
                  << <<"login">>, <<"sid">> >>) >>
      [] cmd = "sql mi create" ->
            << Registration("parameters", "ManagedInstance",
                  << <<"administrator_login">>, <<"administrator_login_password">>,
                     <<"license_type">>, <<"virtual_network_subnet_id">>, <<"vcores">>,
                     <<"storage_size_in_gb">> >>),
               Registration("sku", "Sku", << <<"family">>, <<"name">>, <<"tier">> >>) >>
      [] cmd = "sql mi update" ->
            << Registration("parameters", "ManagedInstance",
                  << <<"administrator_login_password">> >>) >>
      [] cmd = "sql midb create" ->
            << Registration("parameters", "ManagedDatabase", << <<"collation">> >>) >>
      [] cmd = "sql midb restore" ->
            << Registration("parameters", "ManagedDatabase",
                  << <<"target_managed_database_name">>,
                     <<"target_managed_instance_name">>,
                     <<"restore_point_in_time">> >>) >>

\* load_arguments: the flags a command hides with ignore (c.ignore, or
\* arg_type=ignore_type); the parser leaves them at their default
Ignored(cmd) ==
    CASE IsDbCreateCommand(cmd) ->
            DbCreateIgnored(DbCreateConfig(cmd).engine, DbCreateConfig(cmd).create_mode)
      [] cmd \in {"sql elastic-pool create", "sql mi create", "sql db import"} -> {"name"}
      [] OTHER -> {}

\* load_arguments: the flags declared with required=True
RequiredFlags(cmd) ==
    CASE cmd = "sql server create" ->
            {"administrator_login", "administrator_login_password"}
      [] cmd = "sql mi create" ->
            {"administrator_login", "administrator_login_password",
             "virtual_network_subnet_id"}
      [] cmd = "sql midb restore" ->
            {"target_managed_database_name", "restore_point_in_time"}
      [] OTHER -> {}

\* load_arguments: the flags of a command, other than those made by
\* create_args_for_complex_type, that a post-parse hook reads or that share a
\* property name with a complex argument
OtherFlags(cmd) ==
    CASE cmd = "sql mi create" -> {"vnet_name"}
      [] cmd = "sql mi update" -> {"storage_size_in_gb"}
      [] OTHER -> {}

\* the arguments the command takes from the resource URI; always given
UriFlags(cmd) ==
    CASE cmd = "sql job step create" -> {"resource_group_name", "server_name"}
      [] OTHER -> {"resource_group_name"}

\* load_arguments: the standalone validators attached to a command's flags
\* (validate_subnet on vnet_name of 'sql mi create'; storage_param_type's
\* validator on storage_size_in_gb of 'sql mi')
Validators(cmd) ==
    CASE cmd = "sql mi create" ->
            {"validate_subnet", "validate_managed_instance_storage_size"}
      [] cmd = "sql mi update" -> {"validate_managed_instance_storage_size"}
      [] OTHER -> {}

(***************************************************************************)
(* What the parser can hand over.                                          *)
(***************************************************************************)
\* get_subscription_id(cmd.cli_ctx)
SubscriptionId == VStr(<<"S">>)

\* a fully qualified subnet identifier, as a user would paste it
SomeSubnetId ==
    VStr(<<"", "subscriptions", "S", "resourceGroups", "RG", "providers",
           "Microsoft.Network", "virtualNetworks", "othervnet", "subnets", "x">>)

\* flags typed get_three_state_flag()
BoolFlags == {"zone_redundant", "enabled"}

\* flags typed get_enum_type(...): argparse admits only the enum's values
EnumFlags ==
    {"license_type", "catalog_collation", "authentication_type", "storage_key_type"}

\* load_arguments: the flags whose CLIArgumentType has a `type`, the converter
\* argparse calls on the string given
SizeTypes ==
    ("max_size_bytes" :> MaxSizeBytesType) @@ ("storage_size_in_gb" :> StorageType)

\* the values a flag can be given on the command line
FlagVals(f) ==
    CASE f \in BoolFlags -> {VBool(TRUE), VBool(FALSE)}
      [] f \in EnumFlags -> {VStr(<<f>>)}
      [] f = "max_size_bytes" ->
            {VText(<<"0">>), VText(<<"1", "k", "B">>), VText(<<"1", "K", "B">>)}
      [] f = "storage_size_in_gb" ->
            {VText(<<"0">>), VText(<<"5", "0">>), VText(<<"6", "4">>),
             VText(<<"5", "1", "2", "M", "B">>), VText(<<"3", "2", "g", "b">>)}
      [] f = "tags" -> {VDict({}), VDict({"k"})}
      [] f = "virtual_network_subnet_id" ->
            {VStr(<<"">>), VStr(<<"mysubnet">>), SomeSubnetId,
             VStr(<<"", "subnets", "x">>)}
      [] f = "vnet_name" -> {VStr(<<"">>), VStr(<<"myvnet">>)}
      [] f = "resource_group_name" -> {VStr(<<"RG">>)}
      [] OTHER -> {VStr(<<"">>), VStr(<<f>>)}

ArgumentKeys(reg) == {PropertyKey(reg.arguments[i]) : i \in DOMAIN reg.arguments}

SchemaKeys(cmd) ==
    UNION {ArgumentKeys(Registrations(cmd)[i]) : i \in DOMAIN Registrations(cmd)}

Destinations(cmd) == {Registrations(cmd)[i].dest : i \in DOMAIN Registrations(cmd)}

\* every attribute of the namespace the parser builds for the command
Fields(cmd) == SchemaKeys(cmd) \cup Destinations(cmd) \cup OtherFlags(cmd) \cup UriFlags(cmd)

\* a destination is registered with ignore_type and a hidden option, an
\* ignored flag likewise: the user cannot set them
Hidden(cmd) == Destinations(cmd) \cup Ignored(cmd)

AlwaysGiven(cmd) == (RequiredFlags(cmd) \cup UriFlags(cmd)) \ Hidden(cmd)

Optional(cmd) == Fields(cmd) \ (Hidden(cmd) \cup AlwaysGiven(cmd))

\* all namespaces over the flags of `given`, each holding one of its values
RECURSIVE Assignments(_)
Assignments(given) ==
    IF given = {} THEN {EmptyNs}
    ELSE LET f == CHOOSE x \in given : TRUE
         IN  {SetAttr(a, f, v) : a \in Assignments(given \ {f}), v \in FlagVals(f)}

\* the subsets of S with at most n elements
RECURSIVE SubsetsUpTo(_, _)
SubsetsUpTo(S, n) ==
    IF n = 0 \/ S = {} THEN {{}}
    ELSE LET x == CHOOSE y \in S : TRUE
         IN  SubsetsUpTo(S \ {x}, n)
             \cup {T \cup {x} : T \in SubsetsUpTo(S \ {x}, n - 1)}

\* the command lines of the command: the flags given, each with its value
CommandLines(cmd) ==
    UNION {Assignments(AlwaysGiven(cmd) \cup given) :
             given \in SubsetsUpTo(Optional(cmd), MaxSupplied)}

\* argparse calls the flag's `type` on the string given; a flag without one
\* keeps the string
TypeConversion(f, v) ==
    IF f \in DOMAIN SizeTypes
       THEN SizeWithUnitConverterCall(SizeTypes[f], v.chars)
       ELSE Returned(v)

\* a `type` raised ValueError: argparse reports the error and exits
ConversionError(args) ==
    \E f \in DOMAIN args : TypeConversion(f, args[f]).raised # "none"

\* the namespace argparse builds from a command line: every flag is an
\* attribute, None unless given
Namespace(cmd, args) ==
    [f \in Fields(cmd) |->
        IF f \notin DOMAIN args THEN VNone
        ELSE IF f \in DOMAIN SizeTypes
                THEN VInt(Small(TypeConversion(f, args[f]).value))
        ELSE args[f]]

\* the namespaces argparse can produce for the command
ParsedNamespaces(cmd) ==
    {Namespace(cmd, a) : a \in {c \in CommandLines(cmd) : ~ConversionError(c)}}

(***************************************************************************)
(* State.                                                                  *)
(***************************************************************************)
VARIABLES
    config,      \* the (engine, create_mode) _configure_db_create_params is given
    call,        \* a call of a size converter: converter, string, outcome
    validation,  \* _validation of the SDK model types: type -> property -> entry
    extras,      \* the flags made by arg_ctx.extra: key -> required
    cmd,         \* the command being invoked
    argv,        \* the command line: flag given -> value given
    phase,       \* "load", "hooks", "failed" or "done"
    pc,          \* index of the next create_args_for_complex_type call; 0
                 \* before _configure_db_create_params has made its check
    processors,  \* the _expansion_validator_impl closures registered so far
    parsed,      \* the namespace as the parser handed it over
    ns,          \* the argparse namespace: attribute name -> value
    calls,       \* the model constructors called so far, in order
    ran,         \* the post-parse hooks that have run
    error,       \* "none", or the exception that ended the invocation
    last         \* the hook that ran last and the namespace it was given

vars ==
    <<config, call, validation, extras, cmd, argv, phase, pc, processors, parsed, ns,
      calls, ran, error, last>>

NoHook == [hook |-> "none", pre |-> EmptyNs, ranBefore |-> {}, callsBefore |-> <<>>]

\* no size converter is being called
NoCall == [t |-> "none"]

\* a size converter about to be called on a string
Call(self, value) ==
    [t |-> "call", self |-> self, value |-> value, outcome |-> [raised |-> "pending"]]

ModelTypes(c) == {Registrations(c)[i].model_type : i \in DOMAIN Registrations(c)}

\* model types that declare no validation metadata
NoValidation(c) == [m \in ModelTypes(c) |-> EmptyNs]

\* the command is not configured by _configure_db_create_params
NoConfig == [engine |-> "none", create_mode |-> "none"]

\* load_arguments: the pair it passes to _configure_db_create_params
Config(c) == IF IsDbCreateCommand(c) THEN DbCreateConfig(c) ELSE NoConfig

\* the pipeline's variables before load_arguments has run
Loading ==
    /\ argv = EmptyNs
    /\ phase = "load"
    /\ pc = IF IsDbCreateCommand(cmd) THEN 0 ELSE 1
    /\ processors = <<>>
    /\ extras = EmptyNs
    /\ parsed = EmptyNs
    /\ ns = EmptyNs
    /\ calls = <<>>
    /\ ran = {}
    /\ error = "none"
    /\ last = NoHook

\* one invocation of a command.  Nothing after the registration reads the
\* validation metadata, so it is left empty here; RegistrationSpec draws it.
Init ==
    /\ cmd \in Commands
    /\ config = Config(cmd)
    /\ call = NoCall
    /\ validation = NoValidation(cmd)
    /\ Loading

(***************************************************************************)
(* create_args_for_complex_type                                            *)
(***************************************************************************)
\* fault variant: the dict is filled the other way round,
\* model_properties[property_name] = property_key
ModelPropertiesSwapped(arguments) ==
    [n \in {PropertyName(arguments[i]) : i \in DOMAIN arguments} |->
        LET i == CHOOSE j \in DOMAIN arguments :
                    /\ PropertyName(arguments[j]) = n
                    /\ \A l \in DOMAIN arguments :
                          PropertyName(arguments[l]) = n => l <= j
        IN  PropertyKey(arguments[i])]

\* the loop over `arguments`: model_properties[property_key] = property_name;
\* a later entry with the same key overwrites an earlier one
ModelProperties(arguments) ==
    [k \in {PropertyKey(arguments[i]) : i \in DOMAIN arguments} |->
        LET i == CHOOSE j \in DOMAIN arguments :
                    /\ PropertyKey(arguments[j]) = k
                    /\ \A l \in DOMAIN arguments :
                          PropertyKey(arguments[l]) = k => l <= j
        IN  PropertyName(arguments[i])]

\* fault variant: the metadata is looked up under the exposed key
RequiredByKey(validation_map, arg) ==
    LET entry == IF PropertyKey(arg) \in DOMAIN validation_map
                    THEN validation_map[PropertyKey(arg)] ELSE EmptyNs
    IN  IF "required" \in DOMAIN entry THEN entry["required"] ELSE FALSE

\* validation = model_type._validation.get(property_name, None)
\* required = validation.get('required', False) if validation else False
\* (an entry is a dict; None and {} are falsy)
Required(validation_map, arg) ==
    LET entry == IF PropertyName(arg) \in DOMAIN validation_map
                    THEN validation_map[PropertyName(arg)] ELSE EmptyNs
    IN  IF "required" \in DOMAIN entry THEN entry["required"] ELSE FALSE

\* the flags after the loop over `arguments`:
\* arg_ctx.extra(property_key, required=required, ...) for each entry in turn
RECURSIVE Extras(_, _, _)
Extras(registered, reg, validation_map) ==
    IF reg.arguments = <<>> THEN registered
    ELSE LET arg == Head(reg.arguments)
         IN  Extras(SetAttr(registered, PropertyKey(arg),
                            [required |-> Required(validation_map, arg)]),
                    [reg EXCEPT !.arguments = Tail(reg.arguments)],
                    validation_map)

\* get_complex_argument_processor(model_properties, dest, model_type)
ComplexArgumentProcessor(model_properties, assigned_arg, model_type) ==
    [model_properties |-> model_properties,
     assigned_arg |-> assigned_arg,
     model_type |-> model_type]

\* the processors after create_args_for_complex_type(arg_ctx, dest, model_type,
\* arguments): `if dest:` registers one on the destination argument
CreateArgsForComplexType(registered, reg) ==
    IF reg.dest # ""
        THEN Append(registered,
                    ComplexArgumentProcessor(ModelProperties(reg.arguments),
                                             reg.dest, reg.model_type))
        ELSE registered

\* the enum members _params.py names, and three more of the SDK's CreateMode
CreateModes ==
    {"Default", "Copy", "Secondary", "PointInTimeRestore", "Restore",
     "Recovery", "OnlineSecondary", "RestoreLongTermRetentionBackup"}

Engines == {"db", "dw"}

\* fault variant: the create modes are checked whatever the engine
EngineSupportsCreateModeAnyEngine(engine, create_mode) ==
    create_mode \in {"Default", "PointInTimeRestore", "Restore"}

\* the negation of the test of _configure_db_create_params:
\* engine == Engine.dw and create_mode not in [default, point_in_time_restore,
\* restore]
EngineSupportsCreateMode(engine, create_mode) ==
    ~(engine = "dw" /\ create_mode \notin {"Default", "PointInTimeRestore", "Restore"})

\* _configure_db_create_params is entered: it raises ValueError for an engine
\* and create mode that do not go together, before it registers anything
ConfigureDbCreateParams ==
    /\ phase = "load"
    /\ pc = 0
    /\ IF EngineSupportsCreateMode(config.engine, config.create_mode)
          THEN /\ pc' = 1
               /\ phase' = phase
               /\ error' = error
          ELSE /\ error' = "ValueError"
               /\ phase' = "failed"
               /\ pc' = pc
    /\ UNCHANGED <<config, call, validation, extras, cmd, argv, processors, parsed, ns,
                   calls, ran, last>>

\* load_arguments makes the command's next create_args_for_complex_type call
CreateArgs ==
    /\ phase = "load"
    /\ pc >= 1
    /\ pc <= Len(Registrations(cmd))
    /\ processors' = CreateArgsForComplexType(processors, Registrations(cmd)[pc])
    /\ extras' = Extras(extras, Registrations(cmd)[pc],
                        validation[Registrations(cmd)[pc].model_type])
    /\ pc' = pc + 1
    /\ UNCHANGED <<config, call, validation, cmd, argv, phase, parsed, ns, calls, ran,
                   error, last>>

\* the post-parse hooks of the command: a processor is named by its
\* destination, a standalone validator by its function
ProcessorNames == {processors[i].assigned_arg : i \in DOMAIN processors}

Hooks == ProcessorNames \cup Validators(cmd)

\* the parser reads one command line, converting each value with the flag's
\* `type`, and hands over the namespace; a failed conversion ends the
\* invocation before any hook runs
Parse ==
    /\ phase = "load"
    /\ pc > Len(Registrations(cmd))
    /\ argv' \in CommandLines(cmd)
    /\ IF ConversionError(argv')
          THEN /\ error' = "ValueError"
               /\ phase' = "failed"
               /\ UNCHANGED <<config, parsed, ns>>
          ELSE /\ ns' = Namespace(cmd, argv')
               /\ parsed' = ns'
               /\ phase' = "hooks"
               /\ error' = error
    /\ UNCHANGED <<config, call, validation, extras, cmd, pc, processors, calls, ran, last>>

(***************************************************************************)
(* _expansion_validator_impl                                               *)
(***************************************************************************)
\* matched_keys = [k for k in vars(namespace) if k in model_properties]
MatchedKeys(nsp, proc) == DOMAIN nsp \cap DOMAIN proc.model_properties

\* fault variant: the dict is keyed by the exposed key, not the property name
PropertiesByKey(nsp, proc) ==
    [k \in MatchedKeys(nsp, proc) |-> nsp[k]]

\* fault variant: a key whose value is None is left out of the dict
PropertiesWithoutNone(nsp, proc) ==
    LET mk == {k \in MatchedKeys(nsp, proc) : nsp[k] # VNone}
    IN  [p \in {proc.model_properties[k] : k \in mk} |->
            nsp[CHOOSE k \in mk : proc.model_properties[k] = p]]

\* properties = dict((model_properties[k], getattr(namespace, k)) for k in
\* matched_keys).  (Were two keys to carry one property name the dict would
\* keep one of the two values; no registration does that.)
Properties(nsp, proc) ==
    LET mk == MatchedKeys(nsp, proc)
    IN  [p \in {proc.model_properties[k] : k \in mk} |->
            nsp[CHOOSE k \in mk : proc.model_properties[k] = p]]

\* fault variant: the test the comment describes, `is not None`
SpecifiedNotNone(properties) == \E p \in DOMAIN properties : properties[p] # VNone

\* if any(properties.values()):
Specified(properties) == AnyTruthy(properties)

\* model = model_type(**properties)
Construct(model_type, properties) == VObj(model_type, properties)

\* fault variant: the else branch stores None under assigned_arg
ExpansionValidatorImplClearsDest(nsp, proc) ==
    LET properties == Properties(nsp, proc)
        withModel  == IF Specified(properties)
                         THEN SetAttr(nsp, proc.assigned_arg,
                                      Construct(proc.model_type, properties))
                         ELSE SetAttr(nsp, proc.assigned_arg, VNone)
    IN  DelAttrs(withModel, MatchedKeys(nsp, proc))

\* fault variant: the deleting loop sits inside the if branch
ExpansionValidatorImplDeleteIfBuilt(nsp, proc) ==
    LET properties == Properties(nsp, proc)
    IN  IF Specified(properties)
           THEN DelAttrs(SetAttr(nsp, proc.assigned_arg,
                                 Construct(proc.model_type, properties)),
                         MatchedKeys(nsp, proc))
           ELSE nsp

\* fault variant: no key is deleted
ExpansionValidatorImplKeepsKeys(nsp, proc) ==
    LET properties == Properties(nsp, proc)
    IN  IF Specified(properties)
           THEN SetAttr(nsp, proc.assigned_arg, Construct(proc.model_type, properties))
           ELSE nsp

\* the namespace after the step: the model is set under assigned_arg when
\* one is built, then every matched key is deleted
ExpansionValidatorImpl(nsp, proc) ==
    LET properties == Properties(nsp, proc)
        withModel  == IF Specified(properties)
                         THEN SetAttr(nsp, proc.assigned_arg,
                                      Construct(proc.model_type, properties))
                         ELSE nsp
    IN  DelAttrs(withModel, MatchedKeys(nsp, proc))

\* the constructor calls after the step
ExpansionValidatorCalls(made, nsp, proc) ==
    LET properties == Properties(nsp, proc)
    IN  IF Specified(properties)
           THEN Append(made, [model_type |-> proc.model_type, kwargs |-> properties])
           ELSE made

Ran(hook) == [hook |-> hook, pre |-> ns, ranBefore |-> ran, callsBefore |-> calls]

\* one complex-argument processor of the command runs
RunAggregator ==
    /\ phase = "hooks"
    /\ \E i \in DOMAIN processors :
          LET proc == processors[i]
          IN  /\ proc.assigned_arg \notin ran
              /\ ns' = ExpansionValidatorImpl(ns, proc)
              /\ calls' = ExpansionValidatorCalls(calls, ns, proc)
              /\ ran' = ran \cup {proc.assigned_arg}
              /\ last' = Ran(proc.assigned_arg)
    /\ UNCHANGED <<config, call, validation, extras, cmd, argv, phase, pc, processors,
                   parsed, error>>

(***************************************************************************)
(* validate_subnet                                                         *)
(***************************************************************************)
\* msrestazure.tools.is_valid_resource_id: truthy exactly for a string that
\* reads /subscriptions/<s>[/resourceGroups/<g>][/providers/<ns>/<type>/<name>
\* {/<child type>/<child name>}]
IsValidResourceId(v) ==
    /\ v.t = "str"
    /\ LET p == v.parts
       IN  /\ Len(p) >= 3
           /\ p[1] = "" /\ p[2] = "subscriptions" /\ p[3] # ""
           /\ LET q == SubSeq(p, 4, Len(p))
                  r == IF Len(q) >= 2 /\ q[1] = "resourceGroups" /\ q[2] # ""
                          THEN SubSeq(q, 3, Len(q)) ELSE q
              IN  \/ r = <<>>
                  \/ /\ Len(r) >= 4 /\ Len(r) % 2 = 0
                     /\ r[1] = "providers" /\ r[2] # ""
                     /\ \A i \in 4..Len(r) : i % 2 = 0 => r[i] # ""

\* msrestazure.tools.resource_id with the keywords validate_subnet passes
ResourceId(subscription, resource_group, namespace, type, name, child_type_1, child_name_1) ==
    VStr(<<"", "subscriptions">> \o subscription.parts
         \o <<"resourceGroups">> \o resource_group.parts
         \o <<"providers", namespace, type>> \o name.parts
         \o <<child_type_1>> \o child_name_1.parts)

\* fault variant: the elif reads `subnet and vnet`, without `not subnet_is_id`
SubnetCaseIdWithVnet(subnet, vnet) ==
    LET subnet_is_id == IsValidResourceId(subnet)
    IN  IF (subnet_is_id /\ ~Truthy(vnet)) \/ (~Truthy(subnet) /\ ~Truthy(vnet))
           THEN "pass"
        ELSE IF Truthy(subnet) /\ Truthy(vnet)
           THEN "synthesize"
        ELSE "usage"

\* the three branches of validate_subnet; subnet and vnet are the values read
SubnetCase(subnet, vnet) ==
    LET subnet_is_id == IsValidResourceId(subnet)
    IN  IF (subnet_is_id /\ ~Truthy(vnet)) \/ (~Truthy(subnet) /\ ~Truthy(vnet))
           THEN "pass"
        ELSE IF Truthy(subnet) /\ ~subnet_is_id /\ Truthy(vnet)
           THEN "synthesize"
        ELSE "usage"

\* fault variant: name and child_name_1 are exchanged
SynthesizedSubnetIdSwapped(nsp) ==
    ResourceId(SubscriptionId, nsp["resource_group_name"], "Microsoft.Network",
               "virtualNetworks", nsp["virtual_network_subnet_id"],
               "subnets", nsp["vnet_name"])

\* the identifier validate_subnet stores in the synthesize branch
SynthesizedSubnetId(nsp) ==
    ResourceId(SubscriptionId, nsp["resource_group_name"], "Microsoft.Network",
               "virtualNetworks", nsp["vnet_name"],
               "subnets", nsp["virtual_network_subnet_id"])

\* the attributes validate_subnet reads before it branches
SubnetReads == {"virtual_network_subnet_id", "vnet_name"}

\* the exception validate_subnet raises on the namespace, or "none"
ValidateSubnetError(nsp) ==
    IF ~(SubnetReads \subseteq DOMAIN nsp) THEN "AttributeError"
    ELSE LET c == SubnetCase(nsp["virtual_network_subnet_id"], nsp["vnet_name"])
         IN  IF c = "usage" THEN "CLIError"
             ELSE IF c = "synthesize" /\ "resource_group_name" \notin DOMAIN nsp
                     THEN "AttributeError"
             ELSE "none"

\* fault variant: the first branch clears the field instead of passing
ValidateSubnetClearsPassThrough(nsp) ==
    LET c == SubnetCase(nsp["virtual_network_subnet_id"], nsp["vnet_name"])
        rewritten == IF c = "synthesize"
                        THEN SetAttr(nsp, "virtual_network_subnet_id",
                                     SynthesizedSubnetId(nsp))
                        ELSE SetAttr(nsp, "virtual_network_subnet_id", VNone)
    IN  DelAttrs(rewritten, {"vnet_name"})

\* fault variant: the delattr sits inside the elif branch
ValidateSubnetKeepsVnet(nsp) ==
    LET c == SubnetCase(nsp["virtual_network_subnet_id"], nsp["vnet_name"])
    IN  IF c = "synthesize"
           THEN DelAttrs(SetAttr(nsp, "virtual_network_subnet_id",
                                 SynthesizedSubnetId(nsp)),
                         {"vnet_name"})
           ELSE nsp

\* fault variant: the synthesized identifier is computed but not stored
ValidateSubnetLeavesName(nsp) == DelAttrs(nsp, {"vnet_name"})

\* the namespace validate_subnet leaves when it returns
ValidateSubnet(nsp) ==
    LET c == SubnetCase(nsp["virtual_network_subnet_id"], nsp["vnet_name"])
        rewritten == IF c = "synthesize"
                        THEN SetAttr(nsp, "virtual_network_subnet_id",
                                     SynthesizedSubnetId(nsp))
                        ELSE nsp
    IN  DelAttrs(rewritten, {"vnet_name"})

\* fault variant: vnet_name is deleted before the usage error is raised
RunValidateSubnetDeletesFirst ==
    /\ phase = "hooks"
    /\ "validate_subnet" \in Validators(cmd) \ ran
    /\ ran' = ran \cup {"validate_subnet"}
    /\ last' = Ran("validate_subnet")
    /\ error' = ValidateSubnetError(ns)
    /\ IF error' = "none"
          THEN ns' = ValidateSubnet(ns) /\ phase' = phase
          ELSE /\ ns' = IF error' = "CLIError" THEN DelAttrs(ns, {"vnet_name"}) ELSE ns
               /\ phase' = "failed"
    /\ UNCHANGED <<config, call, validation, extras, cmd, argv, pc, processors, parsed, calls>>

RunValidateSubnet ==
    /\ phase = "hooks"
    /\ "validate_subnet" \in Validators(cmd) \ ran
    /\ ran' = ran \cup {"validate_subnet"}
    /\ last' = Ran("validate_subnet")
    /\ error' = ValidateSubnetError(ns)
    /\ IF error' = "none"
          THEN ns' = ValidateSubnet(ns) /\ phase' = phase
          ELSE ns' = ns /\ phase' = "failed"
    /\ UNCHANGED <<config, call, validation, extras, cmd, argv, pc, processors, parsed, calls>>

(***************************************************************************)
(* validate_managed_instance_storage_size                                  *)
(***************************************************************************)
\* fault variant: the test reads `storage_size_in_gb and ... % 32 == 0` only
ValidateStorageSizeErrorRequiresValue(nsp) ==
    IF "storage_size_in_gb" \notin DOMAIN nsp THEN "AttributeError"
    ELSE LET size == nsp["storage_size_in_gb"]
         IN  IF Truthy(size) /\ size.n % 32 = 0 THEN "none" ELSE "CLIError"

\* the exception the validator raises on the namespace, or "none"
ValidateStorageSizeError(nsp) ==
    IF "storage_size_in_gb" \notin DOMAIN nsp THEN "AttributeError"
    ELSE LET size == nsp["storage_size_in_gb"]
         IN  IF ~Truthy(size) \/ (Truthy(size) /\ size.n % 32 = 0)
                THEN "none" ELSE "CLIError"

\* fault variant: the error is recorded but the invocation goes on
RunValidateStorageGoesOn ==
    /\ phase = "hooks"
    /\ "validate_managed_instance_storage_size" \in Validators(cmd) \ ran
    /\ ran' = ran \cup {"validate_managed_instance_storage_size"}
    /\ last' = Ran("validate_managed_instance_storage_size")
    /\ error' = ValidateStorageSizeError(ns)
    /\ UNCHANGED <<config, call, validation, extras, cmd, argv, phase, pc, processors, parsed,
                   ns, calls>>

RunValidateStorage ==
    /\ phase = "hooks"
    /\ "validate_managed_instance_storage_size" \in Validators(cmd) \ ran
    /\ ran' = ran \cup {"validate_managed_instance_storage_size"}
    /\ last' = Ran("validate_managed_instance_storage_size")
    /\ error' = ValidateStorageSizeError(ns)
    /\ phase' = IF error' = "none" THEN phase ELSE "failed"
    /\ UNCHANGED <<config, call, validation, extras, cmd, argv, pc, processors, parsed,
                   ns, calls>>

\* every hook has returned: the command body runs with the namespace
Execute ==
    /\ phase = "hooks"
    /\ ran = Hooks
    /\ phase' = "done"
    /\ UNCHANGED <<config, call, validation, extras, cmd, argv, pc, processors, parsed,
                   ns, calls, ran, error, last>>

Next ==
    \/ ConfigureDbCreateParams
    \/ CreateArgs
    \/ Parse
    \/ RunAggregator
    \/ RunValidateSubnet
    \/ RunValidateStorage
    \/ Execute

Spec == Init /\ [][Next]_vars

(***************************************************************************)
(* The size converters on their own: every converter on every short string *)
(* and on the sample strings.                                              *)
(***************************************************************************)
Converters == {MaxSizeBytesType, StorageType, DefaultSizeType}

Alphabet == {"0", "1", "2", "5", "k", "M", "G", "T", "B", "K", "X", "."}

Samples ==
    {<<"2", "G", "B">>, <<"5", "1", "2">>, <<"1", "0", "X", "B">>,
     <<"1", "0", "K", "B">>, <<"1", "0", "g", "b">>, <<"1", ".", "5", "G", "B">>,
     <<"1", "0", " ", "G", "B">>, <<"1", "5", "3", "6", "M", "B">>,
     <<"3", "2", "7", "6", "8", "M", "B">>, <<"2", "T", "B">>,
     <<"5", "1", "2", "M", "B">>, <<"2", "0", "4", "8", "k", "B">>,
     <<"1", "0", "2", "4", "B">>, <<"G", "B">>, <<>>,
     <<"9", "0", "0", "7", "1", "9", "9", "2", "5", "4", "7", "4", "0", "9", "9", "3">>,
     <<"9", "0", "0", "7", "1", "9", "9", "2", "5", "4", "7", "4", "0", "9", "9", "3", "B">>,
     <<"9", "0", "0", "7", "1", "9", "9", "2", "5", "4", "7", "4", "0", "9", "9", "5", "k", "B">>}

Inputs == UNION {[1..n -> Alphabet] : n \in 0..MaxLen} \cup Samples

ConverterInit ==
    /\ call \in {Call(c, v) : c \in Converters, v \in Inputs}
    /\ cmd = "none"
    /\ config = NoConfig
    /\ validation = EmptyNs
    /\ Loading

\* argparse (or any caller) calls the converter on the string
CallConverter ==
    /\ call.t = "call"
    /\ call.outcome.raised = "pending"
    /\ call' = [call EXCEPT !.outcome = SizeWithUnitConverterCall(call.self, call.value)]
    /\ UNCHANGED <<config, validation, extras, cmd, argv, phase, pc, processors, parsed, ns,
                   calls, ran, error, last>>

ConverterNext == CallConverter

ConverterSpec == ConverterInit /\ [][ConverterNext]_vars

(***************************************************************************)
(* load_arguments on its own, for every shape of the validation metadata   *)
(* of the SDK's model types.                                               *)
(***************************************************************************)
\* the entries a model type's _validation can hold for one property
ValidationEntries ==
    {EmptyNs, "required" :> TRUE, "required" :> FALSE, "readonly" :> TRUE}

\* (model type, name): the property names and the exposed keys of the command
ValidationCandidates(c) ==
    UNION {{<<Registrations(c)[i].model_type, PropertyName(a)>> :
               a \in Range(Registrations(c)[i].arguments)}
           \cup {<<Registrations(c)[i].model_type, PropertyKey(a)>> :
                    a \in Range(Registrations(c)[i].arguments)} :
           i \in DOMAIN Registrations(c)}

Validations(c) ==
    UNION {{[m \in ModelTypes(c) |->
               [n \in {x[2] : x \in {y \in chosen : y[1] = m}} |-> entry[<<m, n>>]]] :
             entry \in [chosen -> ValidationEntries]} :
           chosen \in SubsetsUpTo(ValidationCandidates(c), MaxValidated)}

RegistrationInit ==
    /\ cmd \in Commands
    /\ config = Config(cmd)
    /\ call = NoCall
    /\ validation \in Validations(cmd)
    /\ Loading

RegistrationNext ==
    \/ ConfigureDbCreateParams
    \/ CreateArgs

RegistrationSpec == RegistrationInit /\ [][RegistrationNext]_vars

(***************************************************************************)
(* _configure_db_create_params on its own, for every engine and create     *)
(* mode it can be given.                                                   *)
(***************************************************************************)
ConfigureInit ==
    /\ cmd \in {c \in Commands : IsDbCreateCommand(c)}
    /\ config \in [engine : Engines, create_mode : CreateModes]
    /\ call = NoCall
    /\ validation = NoValidation(cmd)
    /\ Loading

ConfigureNext ==
    \/ ConfigureDbCreateParams
    \/ CreateArgs

ConfigureSpec == ConfigureInit /\ [][ConfigureNext]_vars

(***************************************************************************)
(* The invocations of the managed instance commands, the two commands with *)
(* standalone validators.                                                  *)
(***************************************************************************)
ManagedInstanceInit ==
    /\ Init
    /\ cmd \in {"sql mi create", "sql mi update"}

ManagedInstanceNext ==
    \/ CreateArgs
    \/ Parse
    \/ RunAggregator
    \/ RunValidateSubnet
    \/ RunValidateStorage
    \/ Execute

ManagedInstanceSpec == ManagedInstanceInit /\ [][ManagedInstanceNext]_vars

(***************************************************************************)
(* The invocations of the commands configured by                           *)
(* _configure_db_create_params.                                            *)
(***************************************************************************)
DbCreateInit ==
    /\ Init
    /\ IsDbCreateCommand(cmd)

DbCreateNext ==
    \/ ConfigureDbCreateParams
    \/ CreateArgs
    \/ Parse
    \/ RunAggregator
    \/ Execute

DbCreateSpec == DbCreateInit /\ [][DbCreateNext]_vars

TypeOK ==
    /\ cmd \in Commands \cup {"none"}
    /\ config \in [engine : Engines, create_mode : CreateModes] \cup {NoConfig}
    /\ phase \in {"load", "hooks", "failed", "done"}
    /\ error \in {"none", "ValueError", "CLIError", "AttributeError"}
    /\ cmd \in Commands => ran \subseteq Hooks
    /\ call.t = "call" => call.outcome.raised \in {"pending", "none", "ValueError"}

(***************************************************************************)
(* Properties of the complex-argument processor.  They are stated against  *)
(* the registration made in _params.py (the entries of `arguments`), the   *)
(* namespace the step was given (last.pre) and the namespace it left (ns). *)
(***************************************************************************)
AggregatorRan == last.hook \in Destinations(cmd)

\* the registration whose processor ran last
LastRegistration ==
    CHOOSE r \in Range(Registrations(cmd)) : r.dest = last.hook

\* the entries of the schema whose exposed key the step found in the namespace
LastEntries ==
    {a \in Range(LastRegistration.arguments) : PropertyKey(a) \in DOMAIN last.pre}

NoneTruthy == \A a \in LastEntries : ~Truthy(last.pre[PropertyKey(a)])

ConstructorCalled == Len(calls) = Len(last.callsBefore) + 1

LastCall == calls[Len(calls)]

C2_ExposedFlagsPurged ==
    AggregatorRan => ArgumentKeys(LastRegistration) \cap DOMAIN ns = {}

C2_Witness ==
    /\ AggregatorRan /\ LastEntries # {} /\ ConstructorCalled
    /\ ArgumentKeys(LastRegistration) \cap DOMAIN ns = {}

\* C3: when a collected value is truthy, the destination holds the object of
\* the constructor called with one keyword per schema key present in the
\* namespace, {property name: value found}, whatever the value.
C3_BuildsFromEveryCollectedKey ==
    (AggregatorRan /\ ~NoneTruthy) =>
        LET r == LastRegistration
        IN  /\ r.dest \in DOMAIN ns
            /\ ns[r.dest].t = "obj"
            /\ ns[r.dest].cls = r.model_type
            /\ DOMAIN ns[r.dest].kw = {PropertyName(a) : a \in LastEntries}
            /\ \A a \in LastEntries :
                  ns[r.dest].kw[PropertyName(a)] = last.pre[PropertyKey(a)]
            /\ calls = Append(last.callsBefore,
                              [model_type |-> r.model_type, kwargs |-> ns[r.dest].kw])

C3_Witness ==
    /\ AggregatorRan /\ ~NoneTruthy
    /\ \E a \in LastEntries : PropertyName(a) # PropertyKey(a)
    /\ \E a \in LastEntries : ~Truthy(last.pre[PropertyKey(a)])

\* partial input: a flag of the schema is supplied, another is left at None
PartialInput ==
    /\ \E a \in LastEntries : Truthy(last.pre[PropertyKey(a)])
    /\ \E a \in LastEntries : last.pre[PropertyKey(a)] = VNone

\* C4 as claimed: on partial input the constructor call carries only the
\* supplied properties; a property left at None is absent from the call.
C4_OmittedPropertiesAbsent ==
    (AggregatorRan /\ PartialInput) =>
        /\ ConstructorCalled
        /\ \A a \in LastEntries :
              last.pre[PropertyKey(a)] = VNone =>
                  PropertyName(a) \notin DOMAIN LastCall.kwargs

\* C4 as amended: on partial input the constructor call carries a keyword for
\* every schema key present in the namespace: a supplied property with its
\* value, a property left at None as None.
C4_OmittedPropertiesPassedAsNone ==
    (AggregatorRan /\ PartialInput) =>
        /\ ConstructorCalled
        /\ \A a \in LastEntries :
              /\ PropertyName(a) \in DOMAIN LastCall.kwargs
              /\ LastCall.kwargs[PropertyName(a)] = last.pre[PropertyKey(a)]

C4_Witness ==
    /\ AggregatorRan /\ PartialInput /\ ConstructorCalled
    /\ \E a \in LastEntries : LastCall.kwargs[PropertyName(a)] = VNone

\* the entries declared as a (property_name, exposed_key) pair of two names
RenamedEntries ==
    {a \in Range(LastRegistration.arguments) : PropertyName(a) # PropertyKey(a)}

\* C5: the value of an entry with a distinct exposed key is read from
\* namespace[exposed_key] and passed under property_name, never under the
\* exposed key; namespace[property_name], another flag of the command, is
\* neither read nor deleted.
C5_RenamedEntryUsesPropertyName ==
    AggregatorRan =>
        \A a \in RenamedEntries :
            LET name == PropertyName(a)
                key  == PropertyKey(a)
            IN  /\ (key \in DOMAIN last.pre /\ ~NoneTruthy) =>
                      /\ name \in DOMAIN LastCall.kwargs
                      /\ LastCall.kwargs[name] = last.pre[key]
                      /\ key \notin DOMAIN LastCall.kwargs
                /\ (name \in DOMAIN last.pre
                      /\ name \notin ArgumentKeys(LastRegistration)) =>
                      /\ name \in DOMAIN ns
                      /\ ns[name] = last.pre[name]

C5_Witness ==
    /\ AggregatorRan /\ last.hook = "output" /\ ConstructorCalled
    /\ Truthy(last.pre["output_server_name"])
    /\ LastCall.kwargs["server_name"] = last.pre["output_server_name"]
    /\ "server_name" \in DOMAIN ns
    /\ ns["server_name"] # last.pre["output_server_name"]

ValidatorRan == last.hook \in Validators(cmd)

RECURSIVE RunInOrder(_, _)
RunInOrder(nsp, procs) ==
    IF procs = <<>> THEN nsp
    ELSE RunInOrder(ExpansionValidatorImpl(nsp, Head(procs)), Tail(procs))

Reverse(seq) == [i \in 1..Len(seq) |-> seq[Len(seq) + 1 - i]]

\* every aggregator of the command has run and no validator has
AllAggregatorsRan == phase = "hooks" /\ ran = Destinations(cmd)

\* _params.py registers an inner object after the object that takes it, so
\* the reverse of the registration order runs every inner aggregator first
InnerFirstNamespace == RunInOrder(parsed, Reverse(processors))

\* a destination that is an exposed flag of another aggregator of the command
\* is still an attribute of the namespace
NestedDestinationLeft ==
    \E p, q \in Range(Registrations(cmd)) :
        p.dest \in ArgumentKeys(q) /\ p.dest \in DOMAIN ns

IsShortName(v) == v.t = "str" /\ Len(v.parts) = 1 /\ v.parts # <<"">>

SubnetValidatorGiven(subnet, vnet) ==
    /\ last.hook = "validate_subnet"
    /\ {"virtual_network_subnet_id", "vnet_name", "resource_group_name"}
          \subseteq DOMAIN last.pre
    /\ subnet = last.pre["virtual_network_subnet_id"]
    /\ vnet = last.pre["vnet_name"]

\* C10: given a short non-empty subnet name and a non-empty vnet name,
\* validate_subnet returns without error and leaves in
\* virtual_network_subnet_id the identifier /subscriptions/S/resourceGroups/
\* RG/providers/Microsoft.Network/virtualNetworks/<vnet>/subnets/<subnet>.
C10_SubnetIdSynthesized ==
    \A subnet \in FlagVals("virtual_network_subnet_id"), vnet \in FlagVals("vnet_name") :
        (/\ SubnetValidatorGiven(subnet, vnet)
         /\ IsShortName(subnet)
         /\ IsShortName(vnet)) =>
            /\ error = "none"
            /\ phase # "failed"
            /\ "virtual_network_subnet_id" \in DOMAIN ns
            /\ ns["virtual_network_subnet_id"] =
                  VStr(<<"", "subscriptions", "S", "resourceGroups">>
                       \o last.pre["resource_group_name"].parts
                       \o <<"providers", "Microsoft.Network", "virtualNetworks">>
                       \o vnet.parts \o <<"subnets">> \o subnet.parts)

C10_Witness ==
    /\ SubnetValidatorGiven(VStr(<<"mysubnet">>), VStr(<<"myvnet">>))
    /\ error = "none"
    /\ ns["virtual_network_subnet_id"] =
          VStr(<<"", "subscriptions", "S", "resourceGroups", "RG", "providers",
                 "Microsoft.Network", "virtualNetworks", "myvnet",
                 "subnets", "mysubnet">>)

\* validate_subnet ran on a namespace that still held the fields it reads
SubnetValidatorRead ==
    /\ last.hook = "validate_subnet"
    /\ {"virtual_network_subnet_id", "vnet_name", "resource_group_name"}
          \subseteq DOMAIN last.pre

GivenSubnet == last.pre["virtual_network_subnet_id"]

GivenVnet == last.pre["vnet_name"]

\* a non-empty subnet that is not a resource identifier: a name
SubnetIsName == Truthy(GivenSubnet) /\ ~IsValidResourceId(GivenSubnet)

\* the combinations the validator accepts
SubnetAccepted ==
    \/ IsValidResourceId(GivenSubnet) /\ ~Truthy(GivenVnet)
    \/ ~Truthy(GivenSubnet) /\ ~Truthy(GivenVnet)
    \/ SubnetIsName /\ Truthy(GivenVnet)

\* the combinations listed as rejected
SubnetRejected ==
    \/ IsValidResourceId(GivenSubnet) /\ Truthy(GivenVnet)
    \/ SubnetIsName /\ ~Truthy(GivenVnet)
    \/ ~Truthy(GivenSubnet) /\ Truthy(GivenVnet)

\* C11: validate_subnet ends in the usage error CLIError for a subnet id
\* together with a vnet name, for a subnet name without a vnet name and for a
\* vnet name without a subnet; these are all the combinations other than the
\* three accepted ones, on which it raises nothing.
C11_UsageErrorOutsideAcceptedCases ==
    SubnetValidatorRead =>
        /\ SubnetRejected <=> ~SubnetAccepted
        /\ SubnetRejected => (error = "CLIError" /\ phase = "failed")
        /\ SubnetAccepted => error = "none"

C11_Witness ==
    /\ SubnetValidatorRead
    /\ GivenSubnet = SomeSubnetId
    /\ GivenVnet = VStr(<<"myvnet">>)
    /\ error = "CLIError"
    /\ phase = "failed"

\* C12: when the subnet is a resource identifier and no vnet name is given,
\* and when neither is given, validate_subnet returns without error and
\* virtual_network_subnet_id holds the value it held before the call.
C12_PassThroughLeavesSubnetId ==
    (/\ SubnetValidatorRead
     /\ ~Truthy(GivenVnet)
     /\ IsValidResourceId(GivenSubnet) \/ ~Truthy(GivenSubnet)) =>
        /\ error = "none"
        /\ phase # "failed"
        /\ "virtual_network_subnet_id" \in DOMAIN ns
        /\ ns["virtual_network_subnet_id"] = GivenSubnet

C12_Witness ==
    /\ SubnetValidatorRead
    /\ GivenSubnet = SomeSubnetId
    /\ GivenVnet = VNone
    /\ error = "none"
    /\ ns["virtual_network_subnet_id"] = SomeSubnetId

\* C13: once validate_subnet has returned without error, in the synthesis
\* case and in both pass-through cases, the namespace has no attribute
\* vnet_name.
C13_VnetNameRemovedOnReturn ==
    (last.hook = "validate_subnet" /\ error = "none") => "vnet_name" \notin DOMAIN ns

C13_Witness ==
    /\ SubnetValidatorRead
    /\ error = "none"
    /\ GivenSubnet = VStr(<<"">>)
    /\ GivenVnet = VStr(<<"">>)
    /\ "vnet_name" \notin DOMAIN ns

(***************************************************************************)
(* validate_managed_instance_storage_size                                  *)
(***************************************************************************)
\* the validator ran on a namespace that still held storage_size_in_gb
StorageValidatorRead ==
    /\ last.hook = "validate_managed_instance_storage_size"
    /\ "storage_size_in_gb" \in DOMAIN last.pre

GivenStorage == last.pre["storage_size_in_gb"]

\* C14: validate_managed_instance_storage_size returns without error when
\* storage_size_in_gb is None or a multiple of 32, and ends in the usage error
\* CLIError for every other integer.
C14_StorageMultipleOf32 ==
    StorageValidatorRead =>
        IF GivenStorage = VNone \/ (GivenStorage.t = "int" /\ GivenStorage.n % 32 = 0)
           THEN error = "none" /\ phase # "failed"
           ELSE error = "CLIError" /\ phase = "failed"

C14_Witness ==
    /\ StorageValidatorRead
    /\ GivenStorage = VInt(50)
    /\ error = "CLIError"
    /\ phase = "failed"

(***************************************************************************)
(* SizeWithUnitConverter                                                   *)
(***************************************************************************)
ConverterCalled == call.t = "call" /\ call.outcome.raised # "pending"

AllDigits(ds) == \A i \in DOMAIN ds : IsDigit(ds[i])

\* the string is a non-empty run of decimal digits followed by u
DigitsThen(u) ==
    /\ Len(call.value) > Len(u)
    /\ AllDigits(SubSeq(call.value, 1, Len(call.value) - Len(u)))
    /\ SubSeq(call.value, Len(call.value) - Len(u) + 1, Len(call.value)) = u

\* the number the digits before u denote
NumberBefore(u) == IntOfDigits(SubSeq(call.value, 1, Len(call.value) - Len(u)))

\* the byte ladder B=1, kB=1024, MB=1024^2, GB=1024^3, TB=1024^4
ByteLadder ==
    << <<"B">>, <<"k", "B">>, <<"M", "B">>, <<"G", "B">>, <<"T", "B">> >>

\* x * 1024^k for a Python int x
Shifted(x, k) == IF x = <<>> THEN <<>> ELSE [i \in 1..k |-> 0] \o x

\* C15 as claimed: a non-empty run of digits n followed by a suffix of the
\* unit map is converted without error, and with the byte ladder and base B
\* the result is the exact integer n * 1024^k, k the suffix's place in the
\* ladder.
C15_ExactOnByteLadder ==
    ConverterCalled =>
        /\ \A u \in DOMAIN call.self.unit_map :
              DigitsThen(u) => call.outcome.raised = "none"
        /\ \A k \in DOMAIN ByteLadder :
              (call.self = MaxSizeBytesType /\ DigitsThen(ByteLadder[k])) =>
                  call.outcome = Returned(Shifted(NumberBefore(ByteLadder[k]), k - 1))

\* a digits-only string
DigitsOnly == call.value # <<>> /\ AllDigits(call.value)

\* C16 as claimed: a digits-only string is converted to the number itself by
\* every converter: base B, the GB-based storage converter and the default
\* converter (base kB, default ladder).
C16_DigitsOnlyIsIdentity ==
    (ConverterCalled /\ DigitsOnly) =>
        call.outcome = Returned(IntOfDigits(call.value))

\* the string splits into k leading digits and a remainder that does not
\* start with a digit
SplitsAt(k) ==
    /\ AllDigits(SubSeq(call.value, 1, k))
    /\ k < Len(call.value) => ~IsDigit(call.value[k + 1])

\* C17: when the remainder of the string after its longest leading run of
\* digits is non-empty and is not a key of the unit map, the call raises
\* ValueError and returns nothing.
C17_UnknownUnitIsValueError ==
    ConverterCalled =>
        \A k \in 0..Len(call.value) :
            (/\ SplitsAt(k)
             /\ k < Len(call.value)
             /\ SubSeq(call.value, k + 1, Len(call.value))
                   \notin DOMAIN call.self.unit_map) =>
                call.outcome = Raised("ValueError")

C17_Witness ==
    /\ ConverterCalled
    /\ call.self = MaxSizeBytesType
    /\ call.value = <<"1", ".", "5", "G", "B">>
    /\ call.outcome = Raised("ValueError")

RegistrationsMade == {Registrations(cmd)[i] : i \in 1..(pc - 1)}

\* the metadata of the model type marks the property required
MarkedRequired(model_type, name) ==
    /\ name \in DOMAIN validation[model_type]
    /\ "required" \in DOMAIN validation[model_type][name]
    /\ validation[model_type][name]["required"] = TRUE

\* C19: every schema entry is registered as a flag under its exposed key, and
\* the flag is required exactly when the model type's validation metadata has
\* an entry for the entry's property name (not its exposed key) whose
\* 'required' item is true; without an entry, or with an entry without a
\* 'required' item, the flag is not required.
C19_RequiredFromPropertyName ==
    cmd \in Commands =>
        \A reg \in RegistrationsMade :
            \A a \in Range(reg.arguments) :
                /\ PropertyKey(a) \in DOMAIN extras
                /\ extras[PropertyKey(a)].required
                      = MarkedRequired(reg.model_type, PropertyName(a))

C19_Witness ==
    /\ cmd = "sql job step create"
    /\ pc > Len(Registrations(cmd))
    /\ MarkedRequired("JobStepOutput", "server_name")
    /\ extras["output_server_name"].required
    /\ "server_name" \notin DOMAIN extras
    /\ ~extras["database_name"].required

(***************************************************************************)
(* The invocation as a whole                                               *)
(***************************************************************************)
\* C20: a failure of a conversion, of an aggregator or of a validator ends
\* the invocation at the failing step: no step is taken from a state in which
\* an error has been raised, so no later hook runs and the command is never
\* executed after a failure.
C20_FailureAborts ==
    [][/\ error = "none"
       /\ phase # "failed"
       /\ phase' = "done" => error' = "none"]_vars

C20_Witness ==
    /\ phase = "failed"
    /\ error = "CLIError"
    /\ last.hook = "validate_managed_instance_storage_size"
    /\ Hooks \ ran # {}

(***************************************************************************)
(* The standalone validators in the pipeline                               *)
(***************************************************************************)
\* C21 as claimed: a run of a standalone validator on a namespace of the
\* pipeline ends in a normal return or in the usage error CLIError, never in
\* another failure such as a missing-attribute error.
C21_ReturnOrUsageError ==
    ValidatorRan => error \in {"none", "CLIError"}

\* the outcome of one standalone validator on a namespace: the exception it
\* raises, or "none", and the namespace it leaves
ValidatorOutcome(hook, nsp) ==
    IF hook = "validate_subnet"
       THEN [error |-> ValidateSubnetError(nsp),
             ns |-> IF ValidateSubnetError(nsp) = "none" THEN ValidateSubnet(nsp) ELSE nsp]
       ELSE [error |-> ValidateStorageSizeError(nsp), ns |-> nsp]

\* the validators of `order` run one after the other; the first exception
\* ends the run
RECURSIVE RunValidators(_, _)
RunValidators(nsp, order) ==
    IF order = <<>> THEN [error |-> "none", ns |-> nsp]
    ELSE LET first == ValidatorOutcome(Head(order), nsp)
         IN  IF first.error # "none" THEN first
             ELSE RunValidators(first.ns, Tail(order))

\* the first of the two validators of 'sql mi create' has just run
FirstValidatorRan ==
    /\ cmd = "sql mi create"
    /\ ValidatorRan
    /\ Validators(cmd) \cap last.ranBefore = {}

OtherValidator == CHOOSE v \in Validators(cmd) : v # last.hook

\* the outcome of the order taken: the validator that ran, then the other one
OrderTaken ==
    IF error # "none" THEN [error |-> error, ns |-> ns]
    ELSE RunValidators(ns, <<OtherValidator>>)

\* the outcome of the opposite order on the same namespace
OrderReversed == RunValidators(last.pre, <<OtherValidator, last.hook>>)

\* C22 as claimed: validate_subnet then validate_managed_instance_storage_size
\* gives the same pass/fail outcome and the same final namespace as the two
\* in the opposite order.
C22_ValidatorsCommute ==
    FirstValidatorRan =>
        /\ (OrderTaken.error = "none") <=> (OrderReversed.error = "none")
        /\ OrderTaken.ns = OrderReversed.ns

\* C22 as amended: the two orders give the same pass/fail outcome, and the
\* same final namespace whenever the storage validator passes or
\* validate_subnet fails; when validate_subnet returns and the storage
\* validator fails, the namespace validate_subnet has rewritten is left in the
\* subnet-first order and the untouched one in the storage-first order.
C22_ValidatorsCommuteUpToAbort ==
    FirstValidatorRan =>
        /\ (OrderTaken.error = "none") <=> (OrderReversed.error = "none")
        /\ OrderTaken.error = OrderReversed.error
        /\ (OrderTaken.ns # OrderReversed.ns) <=>
              /\ ValidateSubnetError(last.pre) = "none"
              /\ ValidateStorageSizeError(last.pre) # "none"
        /\ OrderTaken.error = "none" => OrderTaken.ns = ValidateSubnet(last.pre)

C22_Witness ==
    /\ FirstValidatorRan
    /\ last.hook = "validate_subnet"
    /\ error = "none"
    /\ last.pre["storage_size_in_gb"] = VInt(50)
    /\ OrderTaken.error = "CLIError"
    /\ OrderReversed.error = "CLIError"
    /\ "vnet_name" \notin DOMAIN OrderTaken.ns
    /\ "vnet_name" \in DOMAIN OrderReversed.ns

\* the 'parameters' aggregator of 'sql mi create' has run on a command line
\* that gave a short subnet name and a vnet name
StoredWithSubnetName ==
    /\ cmd = "sql mi create"
    /\ "parameters" \in ran
    /\ IsShortName(parsed["virtual_network_subnet_id"])
    /\ IsShortName(parsed["vnet_name"])

\* C23 as claimed: the ManagedInstance object stored under 'parameters'
\* carries the synthesized subnet identifier as virtual_network_subnet_id,
\* never the short name given, in every order of validate_subnet and the
\* 'parameters' aggregator.
C23_StoredSubnetIdSynthesized ==
    StoredWithSubnetName =>
        /\ "parameters" \in DOMAIN ns
        /\ ns["parameters"].t = "obj"
        /\ ns["parameters"].cls = "ManagedInstance"
        /\ ns["parameters"].kw["virtual_network_subnet_id"] = SynthesizedSubnetId(parsed)

(***************************************************************************)
(* The database create commands                                            *)
(***************************************************************************)
SkuComponents == {"capacity", "family", "name", "tier"}

\* the 'parameters' aggregator of a database create command has just run,
\* after the 'sku' aggregator, on a command line with a truthy Sku component
SkuThenParameters ==
    /\ IsDbCreateCommand(cmd)
    /\ last.hook = "parameters"
    /\ "sku" \in last.ranBefore
    /\ \E f \in SkuComponents : Truthy(parsed[f])

\* C24: in a database create command, when the 'sku' aggregator runs before
\* the 'parameters' aggregator and a Sku component flag (capacity, family,
\* name, tier) is truthy, the namespace holds under 'parameters' a Database
\* object whose sku keyword is the Sku object built from the four flags, and
\* has no attribute sku, capacity, family, name or tier.
C24_SkuNestedInDatabase ==
    SkuThenParameters =>
        /\ "parameters" \in DOMAIN ns
        /\ ns["parameters"].t = "obj"
        /\ ns["parameters"].cls = "Database"
        /\ ns["parameters"].kw["sku"] =
              VObj("Sku", [f \in SkuComponents |-> parsed[f]])
        /\ DOMAIN ns \cap (SkuComponents \cup {"sku"}) = {}

C24_Witness ==
    /\ SkuThenParameters
    /\ cmd = "sql dw create"
    /\ ns["parameters"].kw["sku"].cls = "Sku"
    /\ ns["parameters"].kw["sku"].kw["name"] = VStr(<<"name">>)
    /\ ns["parameters"].kw["sku"].kw["tier"] = VNone
    /\ "sku" \notin DOMAIN ns

(***************************************************************************)
(* validate_subnet: what it leaves in the namespace                        *)
(***************************************************************************)
\* C25: when validate_subnet fails with the usage error, the namespace is as
\* it was before the call: virtual_network_subnet_id is not rewritten and
\* vnet_name is not deleted.
C25_UsageErrorLeavesNamespace ==
    (last.hook = "validate_subnet" /\ error = "CLIError") =>
        /\ ns = last.pre
        /\ "vnet_name" \in DOMAIN ns
        /\ ns["virtual_network_subnet_id"] = GivenSubnet

C25_Witness ==
    /\ SubnetValidatorRead
    /\ error = "CLIError"
    /\ GivenSubnet = VStr(<<"mysubnet">>)
    /\ GivenVnet = VNone
    /\ ns["virtual_network_subnet_id"] = VStr(<<"mysubnet">>)
    /\ ns["vnet_name"] = VNone

\* a string that spells a resource from its subscription down:
\* /subscriptions/<s>/resourceGroups/<g>/providers/<namespace>/<type>/<name>
\* followed by child segments
FullyQualified(v) ==
    /\ v.t = "str"
    /\ Len(v.parts) >= 9
    /\ v.parts[1] = "" /\ v.parts[2] = "subscriptions" /\ v.parts[3] # ""
    /\ v.parts[4] = "resourceGroups" /\ v.parts[5] # ""
    /\ v.parts[6] = "providers"
    /\ v.parts[7] # "" /\ v.parts[8] # "" /\ v.parts[9] # ""

\* C26: whenever validate_subnet returns without error,
\* virtual_network_subnet_id is falsy or a fully qualified resource
\* identifier (one is_valid_resource_id accepts, or one spelled from the
\* subscription down); the short name given is never left in the field.
C26_NoShortNameOnReturn ==
    (last.hook = "validate_subnet" /\ error = "none") =>
        /\ "virtual_network_subnet_id" \in DOMAIN ns
        /\ LET id == ns["virtual_network_subnet_id"]
           IN  /\ ~Truthy(id) \/ IsValidResourceId(id) \/ FullyQualified(id)
               /\ SubnetIsName => id # GivenSubnet
               /\ IsShortName(GivenSubnet) => IsValidResourceId(id)

C26_Witness ==
    /\ SubnetValidatorRead
    /\ error = "none"
    /\ GivenSubnet = VStr(<<"", "subnets", "x">>)
    /\ GivenVnet = VStr(<<"myvnet">>)
    /\ FullyQualified(ns["virtual_network_subnet_id"])
    /\ ns["virtual_network_subnet_id"] # GivenSubnet

(***************************************************************************)
(* --storage below 1 GB                                                    *)
(***************************************************************************)
\* 'sql mi create' was given --storage 0 or --storage 512MB
StorageBelowOneGB ==
    /\ cmd = "sql mi create"
    /\ phase # "load"
    /\ "storage_size_in_gb" \in DOMAIN argv
    /\ argv["storage_size_in_gb"] \in {VText(<<"0">>), VText(<<"5", "1", "2", "M", "B">>)}

LastProcessor ==
    CHOOSE p \in Range(processors) : p.assigned_arg = last.hook

\* C28: the step run a second time on the namespace it has just processed
\* matches no schema key, so it changes nothing: the destination built by the
\* first run is neither rebuilt nor cleared, no key is deleted and no
\* constructor is called.
C28_SecondRunChangesNothing ==
    AggregatorRan =>
        /\ MatchedKeys(ns, LastProcessor) = {}
        /\ ExpansionValidatorImpl(ns, LastProcessor) = ns
        /\ ExpansionValidatorCalls(calls, ns, LastProcessor) = calls

C28_Witness ==
    /\ AggregatorRan
    /\ ConstructorCalled
    /\ MatchedKeys(last.pre, LastProcessor) # {}
    /\ ns[last.hook].t = "obj"
    /\ ExpansionValidatorImpl(ns, LastProcessor)[last.hook] = ns[last.hook]

(***************************************************************************)
(* _configure_db_create_params: engine and create mode                     *)
(***************************************************************************)
\* the create modes the data warehouse engine supports
DwCreateModes == {"Default", "PointInTimeRestore", "Restore"}

\* nothing has been registered on the argument context
NothingRegistered == processors = <<>> /\ extras = EmptyNs

\* _configure_db_create_params has made its check
Configured == config # NoConfig /\ (pc >= 1 \/ phase = "failed")

\* C29: _configure_db_create_params raises ValueError for engine dw with a
\* create mode other than default, point_in_time_restore and restore, and has
\* then registered no argument and no aggregator; for engine db, and for dw
\* with one of the three modes, it raises nothing and goes on to register.
C29_InconsistentPairRejectedFirst ==
    /\ (config.engine = "dw" /\ config.create_mode \notin DwCreateModes) =>
          /\ pc = 0
          /\ NothingRegistered
          /\ Configured => (error = "ValueError" /\ phase = "failed")
    /\ (config.engine = "db" \/ config.create_mode \in DwCreateModes) =>
          /\ error = "none"
          /\ phase = "load"
          /\ pc = Len(processors) + 1 \/ (pc = 0 /\ NothingRegistered)

C29_Witness ==
    /\ config = [engine |-> "dw", create_mode |-> "Copy"]
    /\ error = "ValueError"
    /\ phase = "failed"
    /\ NothingRegistered

(***************************************************************************)
(* SizeWithUnitConverter: inputs without a number                          *)
(***************************************************************************)
\* the string does not begin with a decimal digit
NoLeadingDigit == call.value = <<>> \/ ~IsDigit(Head(call.value))

\* C30: the converter raises ValueError, and returns no number, for every
\* string without a leading decimal digit: the empty string, and a bare unit
\* suffix such as 'GB' although it is a key of the unit map.
C30_NoNumberIsValueError ==
    (ConverterCalled /\ NoLeadingDigit) => call.outcome = Raised("ValueError")

C30_Witness ==
    /\ ConverterCalled
    /\ call.self = StorageType
    /\ call.value = <<"G", "B">>
    /\ <<"G", "B">> \in DOMAIN call.self.unit_map
    /\ call.outcome = Raised("ValueError")

====
